---- MODULE Spec2Model ----
(***************************************************************************)
(* Replay timeline and cursor controller of the blackjack replay viewer.   *)
(*                                                                         *)
(*   buildEventList / useReplay   src/unnamed/part_003  (hooks/useReplay)  *)
(*   useAutoPlay                  src/src/hooks/useAutoPlay.ts             *)
(*   GameView                     src/src/views/GameView.tsx               *)
(*   ReplayControls               src/src/components/game/ReplayControls   *)
(*                                                                         *)
(* Indices (roundIndex, agentIndex, stepIndex, eventIndex) are 0-based as  *)
(* in the source; TLA+ sequences are 1-based, so At(s, i) reads s[i + 1].  *)
(***************************************************************************)
EXTENDS Integers, Sequences, FiniteSets, TLC

\* ------------------------------------------------------------------------
\* Bounds of the model
\* ------------------------------------------------------------------------
MaxRounds == 2      \* rounds per session log
MaxAgents == 2      \* agents of a session (one result each per round)
MaxTotalSteps == 3  \* steps per session log, over all rounds and agents
MaxOver   == 2      \* how far jumpTo arguments lie outside [0, N-1]
MaxRenders == 3     \* renders of the component that uses useAutoPlay

\* ------------------------------------------------------------------------
\* Program constants
\* ------------------------------------------------------------------------
SPEEDS       == {400, 800, 1600, 3200}
InitialSpeed == 800
NULL         == << >>

Min(a, b) == IF a <= b THEN a ELSE b
Max(a, b) == IF a >= b THEN a ELSE b
At(s, i)  == s[i + 1]

\* ------------------------------------------------------------------------
\* Session logs (the input of the replay)
\* ------------------------------------------------------------------------
\* the cards dealt to the agent at position a (1-based) of a round, in the
\* order it receives them; agents draw from different places of the deck
Deck == << "5H", "KC", "2D", "3S", "4H", "6C", "7D", "8S" >>
Card(a, i) == Deck[(((a - 1) * 3 + i - 1) % Len(Deck)) + 1]
Cards(a, lo, hi) == [i \in 1..(hi - lo + 1) |-> Card(a, lo + i - 1)]

\* the k-th step of an agent that never splits: the hand holds the two dealt
\* cards and the cards drawn by the k - 1 hits before it
StepRecord(a, k) == [action_taken |-> "hit", player_hand |-> Cards(a, 1, k + 1)]

\* the k-th step of an agent that splits its pair at its first step and
\* then plays the first sub-hand
SplitStepRecord(a, k) ==
    IF k = 1 THEN [action_taken |-> "split", player_hand |-> Cards(a, 1, 2)]
    ELSE [action_taken |-> "hit", player_hand |-> << Card(a, 1) >> \o Cards(a, 3, k + 1)]

StepList(a, n, split) ==
    [k \in 1..n |-> IF split THEN SplitStepRecord(a, k) ELSE StepRecord(a, k)]

\* the final hands: one hand, or the two sub-hands after a split
PlayerHands(a, n, split) ==
    IF n = 0 THEN << Cards(a, 1, 2) >>
    ELSE IF split THEN << << Card(a, 1) >> \o Cards(a, 3, n + 2),
                          << Card(a, 2), Card(a, n + 3) >> >>
    ELSE << Cards(a, 1, n + 2) >>

\* the money of the agents: every agent starts with StartingBankroll, and
\* the agent at position a wins or loses Payout(r, a) in round r
StartingBankroll == 1000
Payout(r, a) == IF (r + a) % 2 = 0 THEN 0 - 20 ELSE 30

RECURSIVE BankrollAfter(_, _)
BankrollAfter(r, a) ==
    IF r = 0 THEN StartingBankroll ELSE BankrollAfter(r - 1, a) + Payout(r, a)

\* the sequences of k step counts that add up to at most budget
RECURSIVE StepCounts(_, _)
StepCounts(k, budget) ==
    IF k = 0 THEN { << >> }
    ELSE UNION { { << n >> \o t : t \in StepCounts(k - 1, budget - n) } : n \in 0..budget }

\* the same A agents play each of the R rounds; counts lists the number of
\* steps of each agent, round after round; with split, every agent that has
\* a step splits at its first step
\* the dealer's final hand of round r; its first card is the upcard
DealerHand(r) ==
    IF r % 2 = 1 THEN << "KD", "7C" >> ELSE << "6D", "5C", "10H" >>

SessionOf(R, A, counts, split) ==
    [starting_bankroll |-> StartingBankroll,
     rounds |-> [r \in 1..R |->
        [dealer_hand   |-> DealerHand(r),
         dealer_upcard |-> DealerHand(r)[1],
         agent_results |-> [a \in 1..A |->
            [agent_index    |-> a - 1,
             steps          |-> StepList(a, counts[(r - 1) * A + a], split),
             player_hands   |-> PlayerHands(a, counts[(r - 1) * A + a], split),
             net_payout     |-> Payout(r, a),
             bankroll_after |-> BankrollAfter(r, a)]]]]]

SessionResults ==
    UNION { { SessionOf(R, A, c, split) :
                c \in StepCounts(R * A, MaxTotalSteps), split \in BOOLEAN } :
            R \in 1..MaxRounds, A \in 1..MaxAgents }

\* the logs of a single agent
SoloSessions ==
    UNION { { SessionOf(R, 1, c, FALSE) : c \in StepCounts(R, MaxTotalSteps) } :
            R \in 1..MaxRounds }

\* the logs of a single agent that takes at most one step in the session
ObservedSessions ==
    UNION { { SessionOf(R, 1, c, FALSE) : c \in StepCounts(R, 1) } :
            R \in 1..MaxRounds }

\* malformed logs: the agent result a of round r has no hand at all; the
\* round r has lost its last agent result, so that the next round has an
\* agent whose agent_index addresses nothing in round r
EmptyHands(s, r, a) ==
    [s EXCEPT !.rounds[r].agent_results[a].player_hands = << >>]

DropLastAgent(s, r) ==
    [s EXCEPT !.rounds[r].agent_results =
        SubSeq(@, 1, Len(@) - 1)]

RECURSIVE SumOver(_, _)
SumOver(f, n) == IF n = 0 THEN 0 ELSE f[n] + SumOver(f, n - 1)

StepsOfRound(rnd) ==
    SumOver([a \in 1..Len(rnd.agent_results) |-> Len(rnd.agent_results[a].steps)],
            Len(rnd.agent_results))

StepsOfSession(s) ==
    SumOver([r \in 1..Len(s.rounds) |-> StepsOfRound(s.rounds[r])], Len(s.rounds))

\* ------------------------------------------------------------------------
\* buildEventList
\* ------------------------------------------------------------------------
\* variant: the steps of an agent are emitted last step first
StepEvents_reversed(ar, roundIndex, agentIndex) ==
    [s \in 1..Len(ar.steps) |->
        [kind |-> "agent_step", roundIndex |-> roundIndex,
         agentIndex |-> agentIndex, stepIndex |-> Len(ar.steps) - s]]

\* variant: stepIndex counted from 1
StepEvents_oneBased(ar, roundIndex, agentIndex) ==
    [s \in 1..Len(ar.steps) |->
        [kind |-> "agent_step", roundIndex |-> roundIndex,
         agentIndex |-> agentIndex, stepIndex |-> s]]

\* ar.steps.forEach((_step, stepIndex) => events.push({agent_step ...}))
StepEvents(ar, roundIndex, agentIndex) ==
    [s \in 1..Len(ar.steps) |->
        [kind |-> "agent_step", roundIndex |-> roundIndex,
         agentIndex |-> agentIndex, stepIndex |-> s - 1]]

\* round.agent_results.forEach((ar, agentIndex) => ...), from agent k on
RECURSIVE AgentEvents(_, _, _)
AgentEvents(agent_results, roundIndex, k) ==
    IF k >= Len(agent_results) THEN << >>
    ELSE StepEvents(At(agent_results, k), roundIndex, k)
            \o AgentEvents(agent_results, roundIndex, k + 1)

\* variant: the round_end event is not pushed
RoundEvents_noRoundEnd(round, roundIndex) ==
    << [kind |-> "round_start", roundIndex |-> roundIndex] >>
        \o AgentEvents(round.agent_results, roundIndex, 0)
        \o << [kind |-> "dealer_reveal", roundIndex |-> roundIndex] >>

\* variant: dealer_reveal is pushed only for a round that has a step
RoundEvents_revealIfSteps(round, roundIndex) ==
    << [kind |-> "round_start", roundIndex |-> roundIndex] >>
        \o AgentEvents(round.agent_results, roundIndex, 0)
        \o (IF AgentEvents(round.agent_results, roundIndex, 0) = << >> THEN << >>
            ELSE << [kind |-> "dealer_reveal", roundIndex |-> roundIndex] >>)
        \o << [kind |-> "round_end", roundIndex |-> roundIndex] >>

\* the body of session.rounds.forEach((round, roundIndex) => ...)
RoundEvents(round, roundIndex) ==
    << [kind |-> "round_start", roundIndex |-> roundIndex] >>
        \o AgentEvents(round.agent_results, roundIndex, 0)
        \o << [kind |-> "dealer_reveal", roundIndex |-> roundIndex],
              [kind |-> "round_end", roundIndex |-> roundIndex] >>

RECURSIVE RoundsFrom(_, _)
RoundsFrom(rounds, r) ==
    IF r >= Len(rounds) THEN << >>
    ELSE RoundEvents(At(rounds, r), r) \o RoundsFrom(rounds, r + 1)

buildEventList(s) == RoundsFrom(s.rounds, 0)

\* ------------------------------------------------------------------------
\* State
\* ------------------------------------------------------------------------
VARIABLES
    session,      \* the session log handed to useReplay
    events,       \* useMemo(() => buildEventList(session), [session])
    eventIndex,   \* useState(0)
    isPlaying,    \* useState(true)
    speed,        \* useState<ReplaySpeed>(800)
    lastOp,       \* history: the controller operation that acted last
    lastArg,      \* history: its argument (jumpTo's idx, setSpeed's s), else 0
    pre,          \* history: eventIndex before that operation
    trail,        \* history: the last (at most two) consecutive single steps
    frame,        \* history: a render state computed by an earlier render of
                  \* GameView, with the position it was computed at, or NULL
    hook,         \* one instance of useAutoPlay: its props, ref and timers
    app,          \* the AppState of SessionProvider and the pending run
    cards         \* the hand handed to a panel, as handValue receives it

vars == << session, events, eventIndex, isPlaying, speed, lastOp, lastArg, pre, trail,
           frame, hook, app, cards >>

\* the state of the components beside the replay controller
others == << hook, app, cards >>

\* derived fields of ReplayState
totalEvents == Len(events)
N           == totalEvents
\* variant of atEnd: true only beyond the last event
atEnd_strict == eventIndex > totalEvents - 1

atEnd       == eventIndex >= totalEvents - 1
currentEvent == At(events, Min(eventIndex, totalEvents - 1))

\* ------------------------------------------------------------------------
\* GameView: lookups of the reconstruction, nullable values as Some / NULL
\* ------------------------------------------------------------------------
Some(x) == << x >>

\* const round = session.rounds[currentEvent.roundIndex]
round == At(session.rounds, currentEvent.roundIndex)

\* currentEvent.kind === 'agent_step' ? (currentEvent.agentIndex ?? null) : null
activeAgentIdx ==
    IF currentEvent.kind = "agent_step" THEN Some(currentEvent.agentIndex) ELSE NULL

\* currentEvent.kind === 'agent_step'
\*   ? round.agent_results[currentEvent.agentIndex!].steps[currentEvent.stepIndex!] : null
activeStep ==
    IF currentEvent.kind = "agent_step"
    THEN Some(At(At(round.agent_results, currentEvent.agentIndex).steps,
                 currentEvent.stepIndex))
    ELSE NULL

\* variant: the whole first hand instead of its first two cards
initialHand_noSlice(ar) ==
    IF Len(ar.player_hands) > 0 THEN ar.player_hands[1] ELSE << >>

\* ar.player_hands[0]?.slice(0, 2) ?? []
initialHand(ar) ==
    IF Len(ar.player_hands) > 0
    THEN SubSeq(ar.player_hands[1], 1, Min(2, Len(ar.player_hands[1])))
    ELSE << >>

\* variant: the active agent shows the hand of its last step
agentHand_activeLast(ar, ai) ==
    IF currentEvent.kind = "round_start" THEN initialHand(ar)
    ELSE IF currentEvent.kind = "agent_step"
    THEN IF ai = currentEvent.agentIndex
         THEN ar.steps[Len(ar.steps)].player_hand
         ELSE IF Len(ar.steps) = 0 THEN initialHand(ar)
         ELSE ar.steps[Len(ar.steps)].player_hand
    ELSE IF Len(ar.player_hands) > 0 THEN ar.player_hands[Len(ar.player_hands)]
    ELSE << >>

\* variant: an inactive agent that has steps shows its final hand
agentHand_othersFinal(ar, ai) ==
    IF currentEvent.kind = "round_start" THEN initialHand(ar)
    ELSE IF currentEvent.kind = "agent_step"
    THEN IF ai = currentEvent.agentIndex
         THEN At(ar.steps, currentEvent.stepIndex).player_hand
         ELSE IF Len(ar.steps) = 0 THEN initialHand(ar)
         ELSE ar.player_hands[Len(ar.player_hands)]
    ELSE IF Len(ar.player_hands) > 0 THEN ar.player_hands[Len(ar.player_hands)]
    ELSE << >>

\* variant: once the agents have played, the first sub-hand is shown
agentHand_finalFirst(ar, ai) ==
    IF currentEvent.kind = "round_start" THEN initialHand(ar)
    ELSE IF currentEvent.kind = "agent_step"
    THEN IF ai = currentEvent.agentIndex
         THEN At(ar.steps, currentEvent.stepIndex).player_hand
         ELSE IF Len(ar.steps) = 0 THEN initialHand(ar)
         ELSE ar.steps[Len(ar.steps)].player_hand
    ELSE IF Len(ar.player_hands) > 0 THEN ar.player_hands[1]
    ELSE << >>

\* the callback of round.agent_results.map((ar, ai) => ...): the hand shown
\* for the agent result ar at position ai of the current round
agentHand(ar, ai) ==
    IF currentEvent.kind = "round_start" THEN initialHand(ar)
    ELSE IF currentEvent.kind = "agent_step"
    THEN IF ai = currentEvent.agentIndex
         THEN At(ar.steps, currentEvent.stepIndex).player_hand
         ELSE IF Len(ar.steps) = 0            \* !hasGone
         THEN initialHand(ar)
         ELSE ar.steps[Len(ar.steps)].player_hand   \* lastStep
    ELSE IF Len(ar.player_hands) > 0 THEN ar.player_hands[Len(ar.player_hands)]
    ELSE << >>

\* const agentHands = round.agent_results.map(...)
agentHands ==
    [b \in 1..Len(round.agent_results) |-> agentHand(round.agent_results[b], b - 1)]

\* variant: payouts are shown as soon as the dealer reveals
showPayouts_atReveal == currentEvent.kind \in {"dealer_reveal", "round_end"}

\* variant: the flag is derived from the event of the render before the
\* last operation instead of the current event
showPayouts_stale == At(events, Min(pre, totalEvents - 1)).kind = "round_end"

\* const showPayouts = currentEvent.kind === 'round_end'
showPayouts == currentEvent.kind = "round_end"

\* variant: the dealer's hand is revealed only at round_end
dealerRevealed_endOnly == currentEvent.kind = "round_end"

\* currentEvent.kind === 'dealer_reveal' || currentEvent.kind === 'round_end'
dealerRevealed ==
    currentEvent.kind = "dealer_reveal" \/ currentEvent.kind = "round_end"

\* variant: the bankroll after the current round at every event of the round
bankroll_thisRound(ar) == ar.bankroll_after

\* the callback of round.agent_results.map(ar => ...) of bankrolls;
\* prevRound is undefined for the first round, and so is the agent result
\* at ar.agent_index of a previous round that has fewer agent results
bankroll(ar) ==
    IF currentEvent.kind = "round_end" THEN ar.bankroll_after
    ELSE IF currentEvent.roundIndex - 1 < 0 THEN session.starting_bankroll
    ELSE LET prevRound == At(session.rounds, currentEvent.roundIndex - 1)
         IN  IF ar.agent_index < Len(prevRound.agent_results)
             THEN At(prevRound.agent_results, ar.agent_index).bankroll_after
             ELSE session.starting_bankroll

\* const bankrolls = round.agent_results.map(...)
bankrolls ==
    [b \in 1..Len(round.agent_results) |-> bankroll(round.agent_results[b])]

\* the props of the AgentPanel at position i (0-based) of the grid
\* isActive={activeAgentIdx === i}
panelIsActive(i) == activeAgentIdx = Some(i)

\* variant: every panel receives the active step
panelActiveStep_all(i) == activeStep

\* activeStep={activeAgentIdx === i ? activeStep : null}
panelActiveStep(i) == IF activeAgentIdx = Some(i) THEN activeStep ELSE NULL

\* payout={showPayouts ? ar.net_payout : null}
panelPayout(i) ==
    IF showPayouts THEN Some(At(round.agent_results, i).net_payout) ELSE NULL

\* the body of GameView throws a TypeError exactly when it reads a property
\* of undefined: round.agent_results of a missing round, .steps of a missing
\* agent result, .player_hand of a missing step; reads guarded by ?. and ??
\* (player_hands[0], the last of player_hands, the agent result of the
\* previous round) yield their fallback instead
GameViewThrows ==
    IF currentEvent.roundIndex >= Len(session.rounds) THEN TRUE
    ELSE IF currentEvent.kind # "agent_step" THEN FALSE
    ELSE IF currentEvent.agentIndex >= Len(round.agent_results) THEN TRUE
    ELSE currentEvent.stepIndex
            >= Len(At(round.agent_results, currentEvent.agentIndex).steps)

\* what one render of GameView derives for the event at the cursor
RenderState ==
    [agentHands     |-> agentHands,
     activeAgentIdx |-> activeAgentIdx,
     activeStep     |-> activeStep,
     dealerRevealed |-> dealerRevealed,
     showPayouts    |-> showPayouts,
     bankrolls      |-> bankrolls]

\* ------------------------------------------------------------------------
\* ReplayControls: the progress bar, as the exact fraction num / den percent
\* ------------------------------------------------------------------------
\* variant: the position is divided by the number of events
progress_overTotal ==
    IF totalEvents > 1
    THEN [num |-> eventIndex * 100, den |-> totalEvents]
    ELSE [num |-> 0, den |-> 1]

\* replay.totalEvents > 1 ? (replay.eventIndex / (replay.totalEvents - 1)) * 100 : 0
progress ==
    IF totalEvents > 1
    THEN [num |-> eventIndex * 100, den |-> totalEvents - 1]
    ELSE [num |-> 0, den |-> 1]

\* ------------------------------------------------------------------------
\* Controller operations: the state updates each callback queues
\* ------------------------------------------------------------------------
\* variants of next: no upper clamp; wraparound at the end
next_unclamped(i, total) == i + 1
next_wrap(i, total) == IF i + 1 > total - 1 THEN 0 ELSE i + 1

\* variant of next: two positions at a time
next_skip(i, total) == Min(i + 2, total - 1)

\* setEventIndex(i => Math.min(i + 1, totalEvents - 1))
next(i, total) == Min(i + 1, total - 1)

\* variants of prev: no lower clamp; two positions back
prev_unclamped(i) == i - 1
prev_skip(i) == Max(i - 2, 0)

\* setEventIndex(i => Math.max(i - 1, 0))
prev(i) == Max(i - 1, 0)

\* variants of jumpTo: the lower clamp is missing; the upper clamp is missing
jumpTo_noLower(idx, total) == Min(idx, total - 1)
jumpTo_noUpper(idx, total) == Max(0, idx)

\* setEventIndex(Math.max(0, Math.min(idx, totalEvents - 1)))
jumpTo(idx, total) == Max(0, Min(idx, total - 1))

\* variant of jumpToEnd: one past the last event
jumpToEnd_pastEnd(total) == total

\* setEventIndex(totalEvents - 1)
jumpToEnd(total) == total - 1

\* variant of play: the position is never reset
play_noReset(i, captured, total) == i

\* if (eventIndex >= totalEvents - 1) setEventIndex(0); the eventIndex read
\* is the one captured by the render that created the callback
play(i, captured, total) == IF captured >= total - 1 THEN 0 ELSE i

\* ------------------------------------------------------------------------
\* The components beside the replay controller, as constructed
\* ------------------------------------------------------------------------
\* useAutoPlay before its component has rendered: no ref value, no timer
hookInitial ==
    [mounted     |-> FALSE,     \* the component is mounted
     active      |-> FALSE,     \* the props of the last render
     intervalMs  |-> InitialSpeed,
     tickRef     |-> 0,         \* tickRef.current: the onTick of render number ...
     timers      |-> {},        \* the intervals alive: [id, ms]
     effectTimer |-> NULL,      \* the id captured by the cleanup of the last effect
     renders     |-> 0,         \* renders so far
     made        |-> 0,         \* intervals created so far
     called      |-> NULL]      \* history: the onTick the last timer callback called

\* const DEFAULT_CONFIG, with the fields the menu changes
DEFAULT_CONFIG ==
    [agents |-> << "Random", "Heuristic(basic)", "Heuristic(aggressive)", "MCTS" >>,
     num_rounds |-> 20]

\* const initialState
initialState ==
    [view |-> "menu", config |-> DEFAULT_CONFIG, session |-> NULL, error |-> NULL]

\* the provider's state, the promise of runSession that handleStart awaits,
\* and as history the last handler, the actions it dispatched and how the
\* last promise settled
appInitial ==
    [state      |-> initialState,
     pending    |-> FALSE,
     handler    |-> "init",
     dispatched |-> << >>,
     settled    |-> NULL]

OthersInitial ==
    /\ hook = hookInitial
    /\ app = appInitial
    /\ cards = << >>

\* variant: the replay is created paused
Mount_paused(s) ==
    /\ session = s
    /\ events = buildEventList(s)
    /\ eventIndex = 0
    /\ isPlaying = FALSE
    /\ speed = InitialSpeed
    /\ lastOp = "init"
    /\ lastArg = 0
    /\ pre = 0
    /\ trail = << >>
    /\ frame = NULL
    /\ OthersInitial

\* first render of GameView for the session log s
Mount(s) ==
    /\ session = s
    /\ events = buildEventList(s)
    /\ eventIndex = 0
    /\ isPlaying = TRUE
    /\ speed = InitialSpeed
    /\ lastOp = "init"
    /\ lastArg = 0
    /\ pre = 0
    /\ trail = << >>
    /\ frame = NULL
    /\ OthersInitial

\* the controller reads the log only through events.length, so its operations
\* are explored on the one-agent logs, which give every length
Init == \E s \in SoloSessions : Mount(s)

\* the timeline and the lookups depend on the shape of the log: all logs
InitTimeline == \E s \in SessionResults : Mount(s)

LastTwo(q) == IF Len(q) > 2 THEN Tail(q) ELSE q

Hist(op, arg) ==
    /\ lastOp' = op
    /\ lastArg' = arg
    /\ pre' = eventIndex
    /\ trail' = IF op \in {"next", "tick"} THEN LastTwo(Append(trail, "next"))
                ELSE IF op = "prev" THEN LastTwo(Append(trail, "prev"))
                ELSE << >>
    /\ UNCHANGED << frame, others >>

Next_ ==
    /\ eventIndex' = next(eventIndex, totalEvents)
    /\ Hist("next", 0)
    /\ UNCHANGED << session, events, isPlaying, speed >>

Prev ==
    /\ eventIndex' = prev(eventIndex)
    /\ Hist("prev", 0)
    /\ UNCHANGED << session, events, isPlaying, speed >>

JumpTo ==
    \E idx \in (0 - MaxOver)..(totalEvents - 1 + MaxOver) :
        /\ eventIndex' = jumpTo(idx, totalEvents)
        /\ Hist("jumpTo", idx)
        /\ UNCHANGED << session, events, isPlaying, speed >>

JumpToEnd ==
    /\ eventIndex' = jumpToEnd(totalEvents)
    /\ isPlaying' = FALSE
    /\ Hist("jumpToEnd", 0)
    /\ UNCHANGED << session, events, speed >>

\* every operation here is a handler of its own, rendered before the next
\* one runs, so the eventIndex captured by play is the current one
Play ==
    /\ eventIndex' = play(eventIndex, eventIndex, totalEvents)
    /\ isPlaying' = TRUE
    /\ Hist("play", 0)
    /\ UNCHANGED << session, events, speed >>

\* variant of Pause: the flag is toggled
Pause_toggle ==
    /\ isPlaying' = ~isPlaying
    /\ Hist("pause", 0)
    /\ UNCHANGED << session, events, eventIndex, speed >>

Pause ==
    /\ isPlaying' = FALSE
    /\ Hist("pause", 0)
    /\ UNCHANGED << session, events, eventIndex, speed >>

\* variant of SetSpeed: changing the speed also pauses
SetSpeed_pauses ==
    \E s \in SPEEDS :
        /\ speed' = s
        /\ isPlaying' = FALSE
        /\ Hist("setSpeed", s)
        /\ UNCHANGED << session, events, eventIndex >>

SetSpeed ==
    \E s \in SPEEDS :
        /\ speed' = s
        /\ Hist("setSpeed", s)
        /\ UNCHANGED << session, events, eventIndex, isPlaying >>

\* variant of Tick: the timer also runs while the replay is paused
Tick_ignoresPause ==
    /\ ~atEnd
    /\ eventIndex' = next(eventIndex, totalEvents)
    /\ Hist("tick", 0)
    /\ UNCHANGED << session, events, isPlaying, speed >>

\* useAutoPlay(replay.isPlaying && !replay.atEnd, replay.speed, () => controls.next())
Tick ==
    /\ isPlaying /\ ~atEnd
    /\ eventIndex' = next(eventIndex, totalEvents)
    /\ Hist("tick", 0)
    /\ UNCHANGED << session, events, isPlaying, speed >>

\* ReplayControls rewind button: controls.pause(); controls.jumpTo(0)
Rewind ==
    /\ isPlaying' = FALSE
    /\ eventIndex' = jumpTo(0, totalEvents)
    /\ Hist("rewind", 0)
    /\ UNCHANGED << session, events, speed >>

Next ==
    \/ Next_
    \/ Prev
    \/ JumpTo
    \/ JumpToEnd
    \/ Play
    \/ Pause
    \/ SetSpeed
    \/ Tick
    \/ Rewind

\* the whole controller
Spec == Init /\ [][Next]_vars

\* variant of Render: deriving the render state also advances the cursor
Render_advances ==
    /\ frame' = Some([eventIndex |-> eventIndex, state |-> RenderState])
    /\ eventIndex' = next(eventIndex, totalEvents)
    /\ UNCHANGED << session, events, isPlaying, speed, lastOp, lastArg, pre, trail,
                    others >>

\* one execution of the body of GameView: useReplay returns the memoised
\* events and the cursor state, the render state is derived from session
\* and currentEvent, and nothing is assigned; the frame is kept for later
\* comparison
Render ==
    /\ frame' = Some([eventIndex |-> eventIndex, state |-> RenderState])
    /\ UNCHANGED << session, events, eventIndex, isPlaying, speed,
                    lastOp, lastArg, pre, trail, others >>

\* the controller together with the renders of the view, on the one-agent
\* logs that record at most one decision
InitObserved == \E s \in ObservedSessions : Mount(s)

NextObserved ==
    \/ Next
    \/ Render

SpecObserved == InitObserved /\ [][NextObserved]_vars

\* single-step navigation, which reaches every position of every log
NextTimeline ==
    \/ Next_
    \/ Prev
    \/ Tick

SpecTimeline == InitTimeline /\ [][NextTimeline]_vars

\* autoplay left alone: the replay is playing at some position, reached by
\* a jump after the first render, and only the timer acts; setInterval
\* keeps firing while the driver is active, hence the fairness of Tick
InitAutoplay ==
    \E s \in SoloSessions :
        \E p \in 0..(Len(buildEventList(s)) - 1) :
            /\ session = s
            /\ events = buildEventList(s)
            /\ eventIndex = jumpTo(p, Len(buildEventList(s)))
            /\ isPlaying = TRUE
            /\ speed = InitialSpeed
            /\ lastOp = "jumpTo"
            /\ lastArg = p
            /\ pre = 0
            /\ trail = << >>
            /\ frame = NULL
            /\ OthersInitial

NextAutoplay == Tick

SpecAutoplay == InitAutoplay /\ [][NextAutoplay]_vars /\ WF_vars(Tick)

\* ------------------------------------------------------------------------
\* Hand values (AgentPanel and DealerPanel); a card is the text of its rank
\* followed by one suit character
\* ------------------------------------------------------------------------
MaxHandLen == 3     \* cards per hand given to handValue

\* the value of a decimal digit character, -1 for any other character
Digit(ch) ==
    CASE ch = "0" -> 0 [] ch = "1" -> 1 [] ch = "2" -> 2 [] ch = "3" -> 3
      [] ch = "4" -> 4 [] ch = "5" -> 5 [] ch = "6" -> 6 [] ch = "7" -> 7
      [] ch = "8" -> 8 [] ch = "9" -> 9 [] OTHER -> 0 - 1

\* parseInt(text, 10): the number written by the leading digits, NULL (NaN)
\* when the text does not start with a digit
RECURSIVE parseDigits(_, _, _)
parseDigits(text, i, acc) ==
    IF i > Len(text) \/ Digit(SubSeq(text, i, i)) < 0
    THEN acc
    ELSE parseDigits(text, i + 1, acc * 10 + Digit(SubSeq(text, i, i)))

parseInt(text) ==
    IF Len(text) = 0 \/ Digit(SubSeq(text, 1, 1)) < 0
    THEN NULL
    ELSE Some(parseDigits(text, 1, 0))

\* c.slice(0, -1)
rankOf(c) == SubSeq(c, 1, Max(Len(c) - 1, 0))

\* what one card adds to the total: parseInt(rank, 10) || 0 for a number
cardTotal(c) ==
    IF rankOf(c) = "A" THEN 11
    ELSE IF rankOf(c) \in {"J", "Q", "K"} THEN 10
    ELSE IF parseInt(rankOf(c)) = NULL THEN 0 ELSE parseInt(rankOf(c))[1]

\* the for loop: << total, aces >> after the cards i..Len(hand)
RECURSIVE countCards(_, _, _, _)
countCards(hand, i, total, aces) ==
    IF i > Len(hand) THEN << total, aces >>
    ELSE countCards(hand, i + 1, total + cardTotal(hand[i]),
                    IF rankOf(hand[i]) = "A" THEN aces + 1 ELSE aces)

\* while (total > 21 && aces > 0) { total -= 10; aces--; }
RECURSIVE demote(_, _)
demote(total, aces) ==
    IF total > 21 /\ aces > 0 THEN demote(total - 10, aces - 1) ELSE total

\* variant: no ace is ever counted as 1
handValue_noDemote(hand) == countCards(hand, 1, 0, 0)[1]

\* handValue of AgentPanel
handValue(hand) ==
    LET c == countCards(hand, 1, 0, 0) IN demote(c[1], c[2])

isBlackjack(hand) == Len(hand) = 2 /\ handValue(hand) = 21

\* AgentPanel: the value and the two flags of the hand it is given
AgentPanel(currentHand) ==
    LET val == IF Len(currentHand) > 0 THEN Some(handValue(currentHand)) ELSE NULL
    IN  [val  |-> val,
         bust |-> val # NULL /\ val[1] > 21,
         bj   |-> val # NULL /\ isBlackjack(currentHand)]

\* handValue of DealerPanel
DealerPanel_handValue(hand) ==
    LET c == countCards(hand, 1, 0, 0) IN demote(c[1], c[2])

\* variant: the full hand is laid out before the reveal
displayCards_full(upcard, fullHand, revealed) == fullHand

displayCards(upcard, fullHand, revealed) ==
    IF revealed THEN fullHand ELSE << upcard >>

\* DealerPanel: the cards laid out, whether the face-down placeholder is
\* rendered after them, the value and the two flags
DealerPanel(upcard, fullHand, revealed) ==
    LET val == IF revealed THEN Some(DealerPanel_handValue(fullHand)) ELSE NULL
    IN  [displayCards |-> displayCards(upcard, fullHand, revealed),
         faceDown     |-> ~revealed,
         val          |-> val,
         bust         |-> val # NULL /\ val[1] > 21,
         bj           |-> revealed /\ Len(fullHand) = 2 /\ val = Some(21)]

\* the DealerPanel that GameView renders at the cursor
dealerPanel == DealerPanel(round.dealer_upcard, round.dealer_hand, dealerRevealed)

\* the rank texts of a deck and the suit character of the i-th card dealt
Ranks == {"A", "2", "3", "4", "5", "6", "7", "8", "9", "10", "J", "Q", "K"}
SuitAt(i) == IF i % 2 = 1 THEN "S" ELSE "H"

\* the texts of the hand held in cards
handText == [i \in 1..Len(cards) |-> cards[i].text]

\* one more card is dealt to the hand
Deal ==
    /\ Len(cards) < MaxHandLen
    /\ \E r \in Ranks :
          cards' = Append(cards, [rank |-> r, text |-> r \o SuitAt(Len(cards) + 1)])
    /\ UNCHANGED << session, events, eventIndex, isPlaying, speed, lastOp,
                    lastArg, pre, trail, frame, hook, app >>

InitHands == Mount(SessionOf(1, 1, << 0 >>, FALSE))

SpecHands == InitHands /\ [][Deal]_vars

\* the totals a hand can be counted as: every ace 1 or 11, a face card 10
RECURSIVE lowTotal(_, _)
lowTotal(h, n) ==
    IF n = 0 THEN 0
    ELSE lowTotal(h, n - 1) +
         ( CASE h[n].rank = "A" -> 1
             [] h[n].rank \in {"J", "Q", "K", "10"} -> 10
             [] h[n].rank = "2" -> 2 [] h[n].rank = "3" -> 3
             [] h[n].rank = "4" -> 4 [] h[n].rank = "5" -> 5
             [] h[n].rank = "6" -> 6 [] h[n].rank = "7" -> 7
             [] h[n].rank = "8" -> 8 [] h[n].rank = "9" -> 9 )

acesOf(h) == Cardinality({ i \in 1..Len(h) : h[i].rank = "A" })

totalsOf(h) == { lowTotal(h, Len(h)) + 10 * k : k \in 0..acesOf(h) }

bestTotal(h) ==
    IF \E t \in totalsOf(h) : t <= 21
    THEN CHOOSE t \in totalsOf(h) :
            t <= 21 /\ \A u \in totalsOf(h) : u <= 21 => u <= t
    ELSE lowTotal(h, Len(h))

\* ------------------------------------------------------------------------
\* SessionContext: the reducer, and the handlers of the views that dispatch
\* ------------------------------------------------------------------------
ALL_AGENTS == << "Random", "Heuristic(basic)", "Heuristic(aggressive)", "MCTS", "DNN" >>

\* { ...config, ...partial }
merge(config, partial) ==
    [k \in DOMAIN config \cup DOMAIN partial |->
        IF k \in DOMAIN partial THEN partial[k] ELSE config[k]]

\* variant: GO_TO_MENU keeps the session
reducer_keepSession(state, action) ==
    CASE action.type = "SET_CONFIG" ->
            [state EXCEPT !.config = merge(state.config, action.config)]
      [] action.type = "START_LOADING" ->
            [state EXCEPT !.view = "loading", !.error = NULL]
      [] action.type = "SESSION_LOADED" ->
            [state EXCEPT !.session = action.session, !.view = "game", !.error = NULL]
      [] action.type = "SESSION_ERROR" ->
            [state EXCEPT !.view = "menu", !.error = Some(action.error)]
      [] action.type = "GO_TO_GAME" -> [state EXCEPT !.view = "game"]
      [] action.type = "GO_TO_LEADERBOARD" -> [state EXCEPT !.view = "leaderboard"]
      [] action.type = "GO_TO_MENU" ->
            [state EXCEPT !.view = "menu", !.error = NULL]
      [] OTHER -> state

\* variant: START_LOADING keeps the error
reducer_startKeepsError(state, action) ==
    CASE action.type = "SET_CONFIG" ->
            [state EXCEPT !.config = merge(state.config, action.config)]
      [] action.type = "START_LOADING" ->
            [state EXCEPT !.view = "loading"]
      [] action.type = "SESSION_LOADED" ->
            [state EXCEPT !.session = action.session, !.view = "game", !.error = NULL]
      [] action.type = "SESSION_ERROR" ->
            [state EXCEPT !.view = "menu", !.error = Some(action.error)]
      [] action.type = "GO_TO_GAME" -> [state EXCEPT !.view = "game"]
      [] action.type = "GO_TO_LEADERBOARD" -> [state EXCEPT !.view = "leaderboard"]
      [] action.type = "GO_TO_MENU" ->
            [state EXCEPT !.view = "menu", !.session = NULL, !.error = NULL]
      [] OTHER -> state

reducer(state, action) ==
    CASE action.type = "SET_CONFIG" ->
            [state EXCEPT !.config = merge(state.config, action.config)]
      [] action.type = "START_LOADING" ->
            [state EXCEPT !.view = "loading", !.error = NULL]
      [] action.type = "SESSION_LOADED" ->
            [state EXCEPT !.session = action.session, !.view = "game", !.error = NULL]
      [] action.type = "SESSION_ERROR" ->
            [state EXCEPT !.view = "menu", !.error = Some(action.error)]
      [] action.type = "GO_TO_GAME" -> [state EXCEPT !.view = "game"]
      [] action.type = "GO_TO_LEADERBOARD" -> [state EXCEPT !.view = "leaderboard"]
      [] action.type = "GO_TO_MENU" ->
            [state EXCEPT !.view = "menu", !.session = NULL, !.error = NULL]
      [] OTHER -> state

\* a handler that dispatches the actions acts (at most one here) and leaves
\* the promise pending or not
Handled(handler, acts, pending, settled) ==
    /\ app' = [state      |-> IF acts = << >> THEN app.state
                               ELSE reducer(app.state, acts[1]),
               pending    |-> pending,
               handler    |-> handler,
               dispatched |-> acts,
               settled    |-> settled]
    /\ UNCHANGED << session, events, eventIndex, isPlaying, speed, lastOp,
                    lastArg, pre, trail, frame, hook, cards >>

\* MainMenuView is rendered: the view is 'menu'
menuShown == app.state.view = "menu"

toggleAgent ==
    /\ menuShown
    /\ \E n \in 1..Len(ALL_AGENTS) :
          LET id   == ALL_AGENTS[n]
              cur  == app.state.config.agents
              isSelected == \E k \in 1..Len(cur) : cur[k] = id
              next_ == IF isSelected
                       THEN SelectSeq(cur, LAMBDA a : a # id)
                       ELSE Append(cur, id)
          IN  Handled("toggleAgent",
                      << [type |-> "SET_CONFIG", config |-> [agents |-> next_]] >>,
                      app.pending, app.settled)

\* the values typed into the NUMBER OF ROUNDS field
TypedRounds == {0, 1, 20, 500, 501}

\* NumField of num_rounds: onChange(clamp(v)) with min 1 and max 500
setNum ==
    /\ menuShown
    /\ \E v \in TypedRounds :
          Handled("setNum",
                  << [type |-> "SET_CONFIG",
                      config |-> [num_rounds |-> Max(1, Min(500, v))]] >>,
                  app.pending, app.settled)

\* handleStart up to its await
handleStart ==
    /\ menuShown
    /\ ~app.pending
    /\ IF Len(app.state.config.agents) = 0
       THEN Handled("handleStart", << >>, FALSE, app.settled)
       ELSE Handled("handleStart", << [type |-> "START_LOADING"] >>, TRUE, app.settled)

\* the logs the server answers with
ReturnedSessions ==
    { SessionOf(1, 1, << 0 >>, FALSE), SessionOf(1, 1, << 1 >>, FALSE) }

\* handleStart after its await: runSession returned a session
runResolved ==
    /\ app.pending
    /\ \E s \in ReturnedSessions :
          Handled("handleStart.try",
                  << [type |-> "SESSION_LOADED", session |-> Some(s)] >>,
                  FALSE, Some([ok |-> TRUE, value |-> s, message |-> NULL]))

\* handleStart after its await: runSession threw; err.message is a text or
\* undefined
runRejected ==
    /\ app.pending
    /\ \E m \in { Some("HTTP 500"), NULL } :
          Handled("handleStart.catch",
                  << [type |-> "SESSION_ERROR",
                      error |-> IF m = NULL THEN "Unknown error" ELSE m[1]] >>,
                  FALSE, Some([ok |-> FALSE, value |-> NULL, message |-> m]))

\* GameView and LeaderboardView are rendered only with a session
gameShown == app.state.view = "game" /\ app.state.session # NULL
leaderboardShown == app.state.view = "leaderboard" /\ app.state.session # NULL

goToLeaderboard ==
    /\ gameShown
    /\ Handled("GO_TO_LEADERBOARD", << [type |-> "GO_TO_LEADERBOARD"] >>,
               app.pending, app.settled)

goToGame ==
    /\ leaderboardShown
    /\ Handled("GO_TO_GAME", << [type |-> "GO_TO_GAME"] >>, app.pending, app.settled)

goToMenu ==
    /\ gameShown \/ leaderboardShown
    /\ Handled("GO_TO_MENU", << [type |-> "GO_TO_MENU"] >>, app.pending, app.settled)

InitApp == Mount(SessionOf(1, 1, << 0 >>, FALSE))

NextApp ==
    \/ toggleAgent
    \/ setNum
    \/ handleStart
    \/ runResolved
    \/ runRejected
    \/ goToLeaderboard
    \/ goToGame
    \/ goToMenu

SpecApp == InitApp /\ [][NextApp]_vars

\* ------------------------------------------------------------------------
\* Handlers that call two operations before the component renders again:
\* React applies the queued updates in order, and play decides on the
\* eventIndex captured by the render that created it
\* ------------------------------------------------------------------------
\* controls.jumpToEnd(); controls.play()
JumpToEndThenPlay ==
    /\ eventIndex' = play(jumpToEnd(totalEvents), eventIndex, totalEvents)
    /\ isPlaying' = TRUE
    /\ Hist("jumpToEnd+play", 0)
    /\ UNCHANGED << session, events, speed >>

\* controls.jumpTo(idx); controls.play()
JumpToThenPlay ==
    \E idx \in 0..(totalEvents - 1) :
        /\ eventIndex' = play(jumpTo(idx, totalEvents), eventIndex, totalEvents)
        /\ isPlaying' = TRUE
        /\ Hist("jumpTo+play", idx)
        /\ UNCHANGED << session, events, speed >>

\* controls.prev(); controls.play()
PrevThenPlay ==
    /\ eventIndex' = play(prev(eventIndex), eventIndex, totalEvents)
    /\ isPlaying' = TRUE
    /\ Hist("prev+play", 0)
    /\ UNCHANGED << session, events, speed >>

NextBatched ==
    \/ Next
    \/ JumpToEndThenPlay
    \/ JumpToThenPlay
    \/ PrevThenPlay

SpecBatched == Init /\ [][NextBatched]_vars

\* ------------------------------------------------------------------------
\* A session log without rounds
\* ------------------------------------------------------------------------
EmptySession == [starting_bankroll |-> StartingBankroll, rounds |-> << >>]

InitAnyLog == \E s \in SoloSessions \cup { EmptySession } : Mount(s)

SpecAnyLog == InitAnyLog /\ [][Next]_vars

\* ------------------------------------------------------------------------
\* useAutoPlay
\* ------------------------------------------------------------------------
replayVars == << session, events, eventIndex, isPlaying, speed,
                 lastOp, lastArg, pre, trail, frame >>

\* the cleanup returned by the last effect: clearInterval(id); an effect that
\* returned at "if (!active) return" has no cleanup
cleanup(h) ==
    IF h.effectTimer = NULL THEN h.timers
    ELSE { t \in h.timers : t.id # h.effectTimer[1] }

\* variant: the effect returns no cleanup, no interval is ever cleared
useAutoPlay_noCleanup(h, active, intervalMs) ==
    LET rendered == [h EXCEPT !.mounted = TRUE, !.active = active,
                              !.intervalMs = intervalMs,
                              !.renders = h.renders + 1,
                              !.tickRef = h.renders + 1]
        depsChanged == ~h.mounted \/ active # h.active \/ intervalMs # h.intervalMs
    IN  IF depsChanged /\ active
        THEN [rendered EXCEPT
                !.timers = h.timers \cup { [id |-> h.made + 1, ms |-> intervalMs] },
                !.effectTimer = Some(h.made + 1),
                !.made = h.made + 1]
        ELSE rendered

\* one render of the component with the props (active, intervalMs) and a
\* fresh onTick closure, numbered by the render: tickRef.current = onTick;
\* when a dependency of [active, intervalMs] changed, or on the first
\* render, the cleanup of the previous effect runs and then the effect
useAutoPlay(h, active, intervalMs) ==
    LET rendered == [h EXCEPT !.mounted = TRUE, !.active = active,
                              !.intervalMs = intervalMs,
                              !.renders = h.renders + 1,
                              !.tickRef = h.renders + 1]
        depsChanged == ~h.mounted \/ active # h.active \/ intervalMs # h.intervalMs
    IN  IF ~depsChanged THEN rendered
        ELSE IF ~active                       \* if (!active) return
        THEN [rendered EXCEPT !.timers = cleanup(h), !.effectTimer = NULL]
        ELSE [rendered EXCEPT                 \* const id = setInterval(...)
                !.timers = cleanup(h) \cup { [id |-> h.made + 1, ms |-> intervalMs] },
                !.effectTimer = Some(h.made + 1),
                !.made = h.made + 1]

\* the first render mounts the component; an unmounted one renders no more
HookRender ==
    /\ hook.renders < MaxRenders
    /\ hook.mounted \/ hook.renders = 0
    /\ \E active \in BOOLEAN, intervalMs \in SPEEDS :
          hook' = useAutoPlay(hook, active, intervalMs)
    /\ UNCHANGED << replayVars, app, cards >>

\* an interval that is alive fires: () => tickRef.current()
TimerFire ==
    /\ \E t \in hook.timers :
          hook' = [hook EXCEPT !.called =
                      Some([onTick |-> hook.tickRef, timer |-> t.id, ms |-> t.ms])]
    /\ UNCHANGED << replayVars, app, cards >>

\* unmount runs the cleanup of the last effect
HookUnmount ==
    /\ hook.mounted
    /\ hook' = [hook EXCEPT !.mounted = FALSE, !.timers = cleanup(hook),
                            !.effectTimer = NULL]
    /\ UNCHANGED << replayVars, app, cards >>

InitHook == Mount(SessionOf(1, 1, << 0 >>, FALSE))

NextHook ==
    \/ HookRender
    \/ TimerFire
    \/ HookUnmount

SpecHook == InitHook /\ [][NextHook]_vars

\* the replay of a malformed log
InitMalformed ==
    \E s \in SessionResults :
        \/ \E r \in 1..Len(s.rounds), a \in 1..Len(s.rounds[1].agent_results) :
              Mount(EmptyHands(s, r, a))
        \/ \E r \in 1..(Len(s.rounds) - 1) :
              Mount(DropLastAgent(s, r))

SpecMalformed == InitMalformed /\ [][NextTimeline]_vars

TypeOK ==
    /\ session \in SessionResults
    /\ eventIndex \in Int
    /\ isPlaying \in BOOLEAN
    /\ speed \in SPEEDS

\* ========================================================================
\* Properties
\* ========================================================================

\* C1: for a log with N >= 1 events, after any sequence of next, prev,
\* jumpTo(i) for any i, jumpToEnd, play, pause, setSpeed and autoplay ticks
\* from the initial state, the cursor satisfies 0 <= eventIndex <= N - 1.
C1_CursorInRange ==
    N >= 1 => (0 <= eventIndex /\ eventIndex <= N - 1)

\* a jump far below 0 from the last position landed on 0
C1_Witness ==
    /\ lastOp = "jumpTo" /\ lastArg < 0
    /\ N > 1 /\ pre = N - 1 /\ eventIndex = 0

\* C2: the length of the list built by buildEventList equals the sum over
\* the rounds of (3 + number of steps of all agents of the round).
C2_EventCount ==
    Len(events) =
        SumOver([r \in 1..Len(session.rounds) |-> 3 + StepsOfRound(session.rounds[r])],
                Len(session.rounds))

\* two rounds holding three steps in all give nine events
C2_Witness ==
    /\ Len(session.rounds) = 2
    /\ StepsOfRound(session.rounds[1]) = 1
    /\ StepsOfRound(session.rounds[2]) = 2
    /\ Len(events) = 9

\* C3: rounds appear in log order, the events of a round are contiguous and
\* ordered round_start, agent_step events (agent-major, step-minor),
\* dealer_reveal, round_end, with exactly one round_start, dealer_reveal and
\* round_end per round; (roundIndex, agentIndex, stepIndex) strictly increases
\* lexicographically along the agent_step events.
C3_EventOrder ==
    LET n == Len(events)
        R == Len(session.rounds)
        rank(e) == CASE e.kind = "round_start"   -> 0
                     [] e.kind = "agent_step"    -> 1
                     [] e.kind = "dealer_reveal" -> 2
                     [] e.kind = "round_end"     -> 3
                     [] OTHER                    -> 4
        cnt(r, k) == Cardinality({ i \in 1..n : events[i].roundIndex = r /\ events[i].kind = k })
        steps == { i \in 1..n : events[i].kind = "agent_step" }
    IN  /\ n >= 1 /\ events[1] = [kind |-> "round_start", roundIndex |-> 0]
        /\ \A i \in 1..n : events[i].roundIndex \in 0..(R - 1)
        /\ \A r \in 0..(R - 1) :
              /\ cnt(r, "round_start") = 1
              /\ cnt(r, "dealer_reveal") = 1
              /\ cnt(r, "round_end") = 1
              /\ cnt(r, "agent_step") = StepsOfRound(session.rounds[r + 1])
        /\ \A i \in 1..(n - 1) :
              LET a == events[i]
                  b == events[i + 1]
              IN  \/ /\ a.kind = "round_end" /\ b.kind = "round_start"
                     /\ b.roundIndex = a.roundIndex + 1
                  \/ /\ a.roundIndex = b.roundIndex
                     /\ rank(a) < rank(b)
                  \/ /\ a.roundIndex = b.roundIndex
                     /\ a.kind = "agent_step" /\ b.kind = "agent_step"
                     /\ \/ a.agentIndex < b.agentIndex
                        \/ a.agentIndex = b.agentIndex /\ a.stepIndex < b.stepIndex
        /\ \A i, j \in steps :
              i < j =>
                 LET a == events[i]
                     b == events[j]
                 IN  \/ a.roundIndex < b.roundIndex
                     \/ a.roundIndex = b.roundIndex /\ a.agentIndex < b.agentIndex
                     \/ /\ a.roundIndex = b.roundIndex /\ a.agentIndex = b.agentIndex
                        /\ a.stepIndex < b.stepIndex

\* first round: agent 0 with two steps, then agent 1 with one step; a second
\* round follows
C3_Witness ==
    /\ Len(session.rounds) = 2
    /\ Len(events) = 9
    /\ events[2] = [kind |-> "agent_step", roundIndex |-> 0, agentIndex |-> 0, stepIndex |-> 0]
    /\ events[3] = [kind |-> "agent_step", roundIndex |-> 0, agentIndex |-> 0, stepIndex |-> 1]
    /\ events[4] = [kind |-> "agent_step", roundIndex |-> 0, agentIndex |-> 1, stepIndex |-> 0]
    /\ events[7] = [kind |-> "round_start", roundIndex |-> 1]

\* C4: at every position the controller reaches, the event at the cursor
\* names an existing round and, for agent_step, an existing agent result of
\* that round and an existing step of that agent; every (round, agent, step)
\* triple of the log is named by exactly one agent_step event.
C4_EventsAddressLog ==
    LET R == Len(session.rounds)
        p == Min(eventIndex, totalEvents - 1)
    IN  /\ 0 <= eventIndex /\ eventIndex <= totalEvents - 1
        /\ LET e == At(events, p)
           IN  /\ e.roundIndex \in 0..(R - 1)
               /\ e.kind = "agent_step" =>
                     LET ars == At(session.rounds, e.roundIndex).agent_results
                     IN  /\ e.agentIndex \in 0..(Len(ars) - 1)
                         /\ e.stepIndex \in 0..(Len(At(ars, e.agentIndex).steps) - 1)
        /\ \A r \in 0..(R - 1) :
              \A a \in 0..(Len(At(session.rounds, r).agent_results) - 1) :
                 \A st \in 0..(Len(At(At(session.rounds, r).agent_results, a).steps) - 1) :
                    Cardinality({ i \in 1..Len(events) :
                        events[i] = [kind |-> "agent_step", roundIndex |-> r,
                                     agentIndex |-> a, stepIndex |-> st] }) = 1

\* the cursor stepped onto the second step of the second agent of the second round
C4_Witness ==
    /\ lastOp = "next"
    /\ 0 <= eventIndex /\ eventIndex <= totalEvents - 1
    /\ currentEvent = [kind |-> "agent_step", roundIndex |-> 1,
                       agentIndex |-> 1, stepIndex |-> 1]
    /\ activeStep = Some(StepRecord(2, 2))

\* C5: a round in which no agent has a step contributes exactly round_start,
\* dealer_reveal, round_end; for a log of such rounds only, no agent_step
\* event exists and at every cursor position the active agent and the active
\* step are null.
C5_StepFreeRounds ==
    /\ \A r \in 0..(Len(session.rounds) - 1) :
          StepsOfRound(At(session.rounds, r)) = 0 =>
             LET OfRound(e) == e.roundIndex = r
             IN  SelectSeq(events, OfRound) =
                    << [kind |-> "round_start", roundIndex |-> r],
                       [kind |-> "dealer_reveal", roundIndex |-> r],
                       [kind |-> "round_end", roundIndex |-> r] >>
    /\ StepsOfSession(session) = 0 =>
          /\ \A i \in 1..Len(events) : events[i].kind # "agent_step"
          /\ 0 <= eventIndex /\ eventIndex <= totalEvents - 1
          /\ activeAgentIdx = NULL
          /\ activeStep = NULL

\* autoplay reached the dealer_reveal of the second of two step-free rounds
C5_Witness ==
    /\ StepsOfSession(session) = 0
    /\ Len(session.rounds) = 2
    /\ Len(events) = 6
    /\ lastOp = "tick" /\ eventIndex = 4
    /\ currentEvent.kind = "dealer_reveal"
    /\ activeAgentIdx = NULL /\ activeStep = NULL

\* C6: next sets eventIndex to min(eventIndex + 1, N - 1): below N - 1 it
\* advances by exactly one, at N - 1 it leaves the position unchanged (no
\* wraparound, no error); it changes neither isPlaying nor speed.
C6_StepForward ==
    [][lastOp' = "next" =>
          /\ eventIndex' = Min(eventIndex + 1, N - 1)
          /\ eventIndex < N - 1 => eventIndex' = eventIndex + 1
          /\ eventIndex = N - 1 => eventIndex' = eventIndex
          /\ isPlaying' = isPlaying
          /\ speed' = speed]_vars

\* next was called twice at the last position and the cursor stayed there
C6_Witness ==
    /\ lastOp = "next" /\ trail = << "next", "next" >>
    /\ N > 1 /\ pre = N - 1 /\ eventIndex = N - 1

\* C7: prev sets eventIndex to max(eventIndex - 1, 0): above 0 it moves back
\* by exactly one, at 0 it leaves the position unchanged; it changes neither
\* isPlaying nor speed.
C7_StepBackward ==
    [][lastOp' = "prev" =>
          /\ eventIndex' = Max(eventIndex - 1, 0)
          /\ eventIndex > 0 => eventIndex' = eventIndex - 1
          /\ eventIndex = 0 => eventIndex' = eventIndex
          /\ isPlaying' = isPlaying
          /\ speed' = speed]_vars

\* prev was called twice at position 0 and the cursor stayed there
C7_Witness ==
    /\ lastOp = "prev" /\ trail = << "prev", "prev" >>
    /\ pre = 0 /\ eventIndex = 0

\* C8: from a position p with 0 < p < N - 1, next followed by prev returns
\* the cursor to p, and prev followed by next returns it to p.
C8_StepRoundTrip ==
    [][/\ (lastOp = "next" /\ lastOp' = "prev" /\ 0 < pre /\ pre < N - 1)
             => eventIndex' = pre
       /\ (lastOp = "prev" /\ lastOp' = "next" /\ 0 < pre /\ pre < N - 1)
             => eventIndex' = pre]_vars

\* next then prev have run and the cursor is back on an inner position
C8_Witness ==
    /\ lastOp = "prev" /\ trail = << "next", "prev" >>
    /\ 0 < eventIndex /\ eventIndex < N - 1
    /\ pre = eventIndex + 1

\* C9: jumpTo(i) sets eventIndex to i when 0 <= i <= N - 1, to 0 when i < 0
\* and to N - 1 when i > N - 1; called with the current position it changes
\* nothing; it never changes isPlaying or speed.
C9_JumpToClamps ==
    [][lastOp' = "jumpTo" =>
          /\ (0 <= lastArg' /\ lastArg' <= N - 1) => eventIndex' = lastArg'
          /\ lastArg' < 0 => eventIndex' = 0
          /\ lastArg' > N - 1 => eventIndex' = N - 1
          /\ lastArg' = eventIndex => eventIndex' = eventIndex
          /\ isPlaying' = isPlaying
          /\ speed' = speed]_vars

\* a jump beyond the end from position 0 landed on the last position
C9_Witness ==
    /\ lastOp = "jumpTo" /\ lastArg > N - 1
    /\ N > 1 /\ pre = 0 /\ eventIndex = N - 1
    /\ isPlaying

\* C10: from any reachable state jumpToEnd results in eventIndex = N - 1,
\* atEnd true and isPlaying false, with speed unchanged.
C10_JumpToEnd ==
    [][lastOp' = "jumpToEnd" =>
          /\ eventIndex' = N - 1
          /\ atEnd'
          /\ isPlaying' = FALSE
          /\ speed' = speed]_vars

\* jumpToEnd was called from position 0 at the slowest speed
C10_Witness ==
    /\ lastOp = "jumpToEnd" /\ N > 1 /\ pre = 0
    /\ eventIndex = N - 1 /\ atEnd /\ ~isPlaying
    /\ speed = 3200

\* C11: play called at the last position N - 1 results in eventIndex = 0 and
\* isPlaying true; play called at any other position leaves the position
\* unchanged and sets isPlaying to true.
C11_PlayRestartsAtEnd ==
    [][lastOp' = "play" =>
          /\ eventIndex = N - 1 => eventIndex' = 0
          /\ eventIndex # N - 1 => eventIndex' = eventIndex
          /\ isPlaying' = TRUE]_vars

\* play was called at the last position of a paused replay
C11_Witness ==
    /\ lastOp = "play" /\ N > 1 /\ pre = N - 1
    /\ eventIndex = 0 /\ isPlaying

\* C12 as stated: whenever jumpToEnd, next or an autoplay tick brings the
\* cursor to the last position N - 1, isPlaying is false afterwards.
C12_EndAlwaysPauses ==
    ( /\ eventIndex = N - 1
      /\ \/ lastOp = "jumpToEnd"
         \/ lastOp \in {"next", "tick"} /\ pre < N - 1 )
    => ~isPlaying

\* C12 amended: whenever jumpToEnd, next or an autoplay tick brings the
\* cursor to N - 1, autoplay is inactive afterwards (isPlaying && !atEnd is
\* false): jumpToEnd sets isPlaying to false, next and tick leave isPlaying
\* as it was.
C12_EndStopsAutoplay ==
    [][(eventIndex' = N - 1 /\ lastOp' \in {"jumpToEnd", "next", "tick"}) =>
          /\ ~(isPlaying' /\ ~atEnd')
          /\ lastOp' = "jumpToEnd" => isPlaying' = FALSE
          /\ lastOp' \in {"next", "tick"} => isPlaying' = isPlaying]_vars

\* autoplay ran into the last position and the play flag is still set
C12_Witness ==
    /\ lastOp = "tick" /\ pre = N - 2 /\ eventIndex = N - 1
    /\ atEnd /\ isPlaying

\* C13: pause sets isPlaying to false from any state, a second pause changes
\* nothing, and pause leaves eventIndex and speed unchanged.
C13_PauseIdempotent ==
    [][lastOp' = "pause" =>
          /\ isPlaying' = FALSE
          /\ eventIndex' = eventIndex
          /\ speed' = speed
          /\ lastOp = "pause" =>
                << eventIndex', isPlaying', speed' >> = << eventIndex, isPlaying, speed >>]_vars

\* a playing replay was paused away from position 0 at the fastest speed
C13_Witness ==
    /\ lastOp = "pause" /\ ~isPlaying
    /\ pre = eventIndex /\ eventIndex > 0
    /\ speed = 400

\* C14: setSpeed(s) changes only the speed, eventIndex and isPlaying are
\* unchanged by it, and in every reachable state the speed is one of 400,
\* 800, 1600, 3200.
C14_SetSpeedFrame ==
    /\ [](speed \in {400, 800, 1600, 3200})
    /\ [][lastOp' = "setSpeed" =>
             /\ speed' = lastArg'
             /\ eventIndex' = eventIndex
             /\ isPlaying' = isPlaying]_vars

\* the speed of a playing replay was changed away from position 0
C14_Witness ==
    /\ lastOp = "setSpeed" /\ lastArg = 1600 /\ speed = 1600
    /\ pre = eventIndex /\ eventIndex > 0
    /\ isPlaying

\* C15: in every reachable state atEnd is true exactly when
\* eventIndex = N - 1.
C15_AtEndIsEquality ==
    atEnd <=> (eventIndex = N - 1)

\* a jump beyond the end put the cursor on the last position
C15_Witness ==
    /\ lastOp = "jumpTo" /\ lastArg = N + 1
    /\ eventIndex = N - 1 /\ atEnd

\* C16: the progress value is eventIndex / (N - 1) percent when N > 1 and 0
\* otherwise, so it is never a division by zero, lies within [0, 100], is 0
\* exactly at position 0 and is 100 exactly when atEnd holds.
C16_ProgressRange ==
    /\ progress.den > 0
    /\ N > 1 => (progress.num = eventIndex * 100 /\ progress.den = N - 1)
    /\ N <= 1 => progress.num = 0
    /\ 0 <= progress.num /\ progress.num <= 100 * progress.den
    /\ progress.num = 0 <=> eventIndex = 0
    /\ progress.num = 100 * progress.den <=> atEnd

\* the cursor jumped to the middle of the list: the bar is at 50 percent
C16_Witness ==
    /\ lastOp = "jumpTo" /\ 0 < eventIndex /\ eventIndex < N - 1
    /\ 2 * progress.num = 100 * progress.den

\* C17: when the event at the cursor is round_start, every agent's visible
\* hand is the first two cards of its player_hands[0] of that round, whether
\* or not the agent split or has no step; it is not the agent's final hand
\* when the final hand is longer.
C17_RoundStartHands ==
    currentEvent.kind = "round_start" =>
        \A b \in 1..Len(round.agent_results) :
            LET ar == round.agent_results[b]
                final == ar.player_hands[Len(ar.player_hands)]
            IN  /\ agentHands[b] = SubSeq(ar.player_hands[1], 1, 2)
                /\ Len(final) > 2 => agentHands[b] # final

\* the cursor stepped back onto the round_start of a round in which the first
\* agent split and the second agent has no step
C17_Witness ==
    /\ lastOp = "prev" /\ pre = 1 /\ eventIndex = 0
    /\ currentEvent.kind = "round_start"
    /\ Len(round.agent_results) = 2
    /\ Len(round.agent_results[1].player_hands) = 2
    /\ Len(round.agent_results[1].steps) = 2
    /\ Len(round.agent_results[2].steps) = 0
    /\ agentHands[1] = << Card(1, 1), Card(1, 3) >>
    /\ agentHands[2] = << Card(2, 1), Card(2, 2) >>

\* C18: when the event at the cursor is agent_step(a, s), the visible hand
\* of agent a is the player_hand recorded in step s of agent a in that round,
\* not the differing hand of another step and not its differing final hand.
C18_ActiveAgentHand ==
    currentEvent.kind = "agent_step" =>
        LET ar == At(round.agent_results, currentEvent.agentIndex)
            shown == agentHands[currentEvent.agentIndex + 1]
            recorded == At(ar.steps, currentEvent.stepIndex).player_hand
            final == ar.player_hands[Len(ar.player_hands)]
        IN  /\ shown = recorded
            /\ \A k \in 1..Len(ar.steps) :
                  ar.steps[k].player_hand # recorded => shown # ar.steps[k].player_hand
            /\ final # recorded => shown # final

\* the cursor stepped back onto the first of the two steps of the second agent
C18_Witness ==
    /\ lastOp = "prev"
    /\ currentEvent.kind = "agent_step"
    /\ currentEvent.agentIndex = 1 /\ currentEvent.stepIndex = 0
    /\ Len(round.agent_results[2].steps) = 2
    /\ agentHands[2] = << Card(2, 1), Card(2, 2) >>
    /\ round.agent_results[2].steps[2].player_hand # agentHands[2]

\* C19: when the event at the cursor is agent_step(a, s), every agent b other
\* than a shows the player_hand of its last recorded step of that round if it
\* has a step, and the first two cards of its player_hands[0] if it has none.
C19_OtherAgentsHands ==
    currentEvent.kind = "agent_step" =>
        \A b \in 1..Len(round.agent_results) :
            b - 1 # currentEvent.agentIndex =>
                LET ar == round.agent_results[b]
                IN  agentHands[b] =
                        IF Len(ar.steps) >= 1
                        THEN ar.steps[Len(ar.steps)].player_hand
                        ELSE SubSeq(ar.player_hands[1], 1, 2)

\* agent A takes one step and agent B none: at agent_step(A, 0) agent B shows
\* its two dealt cards
C19_Witness ==
    /\ lastOp = "tick" /\ eventIndex = 1
    /\ currentEvent = [kind |-> "agent_step", roundIndex |-> 0,
                       agentIndex |-> 0, stepIndex |-> 0]
    /\ Len(round.agent_results) = 2
    /\ Len(round.agent_results[1].steps) = 1
    /\ Len(round.agent_results[2].steps) = 0
    /\ agentHands[2] = << Card(2, 1), Card(2, 2) >>

\* C20: when the event at the cursor is agent_step(a, s), every agent b that
\* comes after a in agent order is shown with the first two cards of its
\* player_hands[0], not with a hand of one of its own later steps or its
\* final hand.  Stated for the agents that did not split, whose
\* player_hands[0] starts with the two dealt cards.
C20_LaterAgentsPreRound ==
    currentEvent.kind = "agent_step" =>
        \A b \in 1..Len(round.agent_results) :
            ( /\ b - 1 > currentEvent.agentIndex
              /\ Len(round.agent_results[b].player_hands) = 1 ) =>
                agentHands[b] = SubSeq(round.agent_results[b].player_hands[1], 1, 2)

\* C21: when the event at the cursor is dealer_reveal or round_end, every
\* agent's visible hand is the last entry of its player_hands of that round,
\* which after a split is the last sub-hand.
C21_FinalHands ==
    currentEvent.kind \in {"dealer_reveal", "round_end"} =>
        \A b \in 1..Len(round.agent_results) :
            LET ar == round.agent_results[b]
            IN  agentHands[b] = ar.player_hands[Len(ar.player_hands)]

\* the cursor stepped onto dealer_reveal of a round in which the first agent
\* split: it shows its second sub-hand, the other agent its only hand
C21_Witness ==
    /\ lastOp \in {"next", "tick"}
    /\ currentEvent.kind = "dealer_reveal"
    /\ Len(round.agent_results) = 2
    /\ Len(round.agent_results[1].player_hands) = 2
    /\ agentHands[1] = round.agent_results[1].player_hands[2]
    /\ agentHands[1] # round.agent_results[1].player_hands[1]
    /\ agentHands[2] = << Card(2, 1), Card(2, 2) >>

\* C22: the active decision is non-null exactly when the event at the cursor
\* is agent_step; it is then the step record at (agentIndex, stepIndex) of
\* the current round, and exactly one agent panel, the one at agentIndex, is
\* marked active and receives that step; for round_start, dealer_reveal and
\* round_end no agent is active and the active step is null.
C22_ActiveDecision ==
    LET e == currentEvent
        panels == 0..(Len(round.agent_results) - 1)
    IN  /\ activeStep # NULL <=> e.kind = "agent_step"
        /\ e.kind = "agent_step" =>
              /\ activeStep =
                    Some(session.rounds[e.roundIndex + 1]
                            .agent_results[e.agentIndex + 1].steps[e.stepIndex + 1])
              /\ { i \in panels : panelIsActive(i) } = { e.agentIndex }
              /\ \A i \in panels :
                    panelActiveStep(i) = IF i = e.agentIndex THEN activeStep ELSE NULL
        /\ e.kind # "agent_step" =>
              /\ activeAgentIdx = NULL
              /\ \A i \in panels : ~panelIsActive(i) /\ panelActiveStep(i) = NULL

\* the cursor is on the second step of the second of two agents: its panel
\* alone is active and holds that step
C22_Witness ==
    /\ lastOp \in {"next", "tick"}
    /\ currentEvent.kind = "agent_step"
    /\ currentEvent.agentIndex = 1 /\ currentEvent.stepIndex = 1
    /\ Len(round.agent_results) = 2
    /\ panelIsActive(1) /\ ~panelIsActive(0)
    /\ panelActiveStep(1) = Some(round.agent_results[2].steps[2])
    /\ panelActiveStep(0) = NULL

\* C23: the dealer reveal flag is true exactly when the event at the cursor
\* is dealer_reveal or round_end, and false for round_start and agent_step;
\* so a step forward within one round never takes it from true to false, and
\* a step forward takes it from true to false only onto the round_start of
\* the next round.
C23_DealerReveal ==
    /\ [](dealerRevealed <=> currentEvent.kind \in {"dealer_reveal", "round_end"})
    /\ [](currentEvent.kind \in {"round_start", "agent_step"} => ~dealerRevealed)
    /\ [][eventIndex' = eventIndex + 1 =>
             /\ (currentEvent'.roundIndex = currentEvent.roundIndex /\ dealerRevealed)
                    => dealerRevealed'
             /\ (dealerRevealed /\ ~dealerRevealed') =>
                    /\ currentEvent'.kind = "round_start"
                    /\ currentEvent'.roundIndex = currentEvent.roundIndex + 1]_vars

\* autoplay stepped from the round_end of the first round onto the round_start
\* of the second: the dealer's hand is hidden again
C23_Witness ==
    /\ lastOp = "tick" /\ pre = eventIndex - 1
    /\ currentEvent.kind = "round_start" /\ currentEvent.roundIndex = 1
    /\ At(events, pre).kind = "round_end"
    /\ ~dealerRevealed

\* C24: the payout visibility flag is true exactly when the event at the
\* cursor is round_end: an agent's net_payout is passed to its panel only at
\* round_end and is null at round_start, agent_step and dealer_reveal.
C24_PayoutsAtRoundEnd ==
    /\ showPayouts <=> currentEvent.kind = "round_end"
    /\ \A i \in 0..(Len(round.agent_results) - 1) :
          panelPayout(i) =
              IF currentEvent.kind = "round_end"
              THEN Some(round.agent_results[i + 1].net_payout)
              ELSE NULL

\* the cursor stepped from dealer_reveal, where no payout is shown, onto
\* round_end, where the two agents show their different payouts
C24_Witness ==
    /\ lastOp \in {"next", "tick"} /\ pre = eventIndex - 1
    /\ At(events, pre).kind = "dealer_reveal"
    /\ currentEvent.kind = "round_end" /\ currentEvent.roundIndex = 0
    /\ Len(round.agent_results) = 2
    /\ panelPayout(0) = Some(0 - 20) /\ panelPayout(1) = Some(30)

\* C25: for every agent and every cursor position in round r: at round_end
\* the bankroll snapshot is the agent's bankroll_after of round r; otherwise
\* it is the agent's bankroll_after of round r - 1 when r is not the first
\* round, and the session's starting_bankroll when r is the first round.
C25_BankrollSnapshot ==
    LET r == currentEvent.roundIndex + 1
    IN  \A b \in 1..Len(round.agent_results) :
            bankrolls[b] =
                IF currentEvent.kind = "round_end"
                THEN session.rounds[r].agent_results[b].bankroll_after
                ELSE IF r > 1
                THEN session.rounds[r - 1].agent_results[b].bankroll_after
                ELSE session.starting_bankroll

\* starting bankroll 1000 and bankroll_after 980 in the first round: the
\* agent's snapshot reads 980 at an agent_step of the second round
C25_Witness ==
    /\ lastOp \in {"next", "tick"}
    /\ currentEvent.kind = "agent_step" /\ currentEvent.roundIndex = 1
    /\ session.starting_bankroll = 1000
    /\ session.rounds[1].agent_results[1].bankroll_after = 980
    /\ session.rounds[2].agent_results[1].bankroll_after # 980
    /\ bankrolls[1] = 980

C27_ReadOnlyDerivation ==
    /\ [](events = buildEventList(session))
    /\ [][/\ session' = session
          /\ events' = events
          /\ frame' # frame => UNCHANGED << eventIndex, isPlaying, speed >>
          /\ << eventIndex, isPlaying, speed >>' # << eventIndex, isPlaying, speed >> =>
                /\ frame' = frame
                /\ lastOp' \in {"next", "prev", "jumpTo", "jumpToEnd", "play",
                                "pause", "setSpeed", "tick", "rewind"}
                /\ lastOp' = "tick" =>
                      << eventIndex', isPlaying', speed' >>
                          = << next(eventIndex, N), isPlaying, speed >>
                /\ lastOp' = "rewind" =>
                      << eventIndex', isPlaying', speed' >>
                          = << jumpTo(0, N), FALSE, speed >>]_vars

\* the view rendered after an autoplay tick: the cursor is where the tick
\* left it, still playing at the initial speed, and the events are those
\* built from the log
C27_Witness ==
    /\ lastOp = "tick" /\ pre = eventIndex - 1
    /\ frame # NULL /\ frame[1].eventIndex = eventIndex
    /\ frame[1].state = RenderState
    /\ isPlaying /\ speed = InitialSpeed
    /\ events = buildEventList(session)

\* C28: for a malformed log (an agent result of the current round whose
\* player_hands is empty, or a previous round that has no agent result at an
\* agent's agent_index), deriving the render state fails with an error; no
\* empty hand and no starting bankroll is substituted for the missing record.
C28_MalformedFailsFast ==
    LET prevIndex == currentEvent.roundIndex - 1
        missingHands ==
            \E b \in 1..Len(round.agent_results) :
                Len(round.agent_results[b].player_hands) = 0
        missingPrevious ==
            /\ prevIndex >= 0
            /\ \E b \in 1..Len(round.agent_results) :
                  round.agent_results[b].agent_index
                      >= Len(At(session.rounds, prevIndex).agent_results)
    IN  (missingHands \/ missingPrevious) => GameViewThrows

\* C29 as stated, in the part that fails: after the end is reached no
\* autoplay advance happens until play is called again; so no tick directly
\* follows a step back or a jump that took the cursor off the last position.
C29_NoAdvanceAfterEnd ==
    [][lastOp' = "tick" =>
          /\ isPlaying /\ ~atEnd
          /\ ~(lastOp \in {"prev", "jumpTo"} /\ pre = N - 1)]_vars

\* C29 amended: the autoplay driver calls next only in states where
\* isPlaying is true and atEnd is false; so while the replay is paused or at
\* the end the position changes only through explicit calls, and after pause
\* no autoplay advance happens until play is called, the only operation that
\* sets isPlaying.  Reaching the end by next or a tick leaves isPlaying set,
\* so once prev or jumpTo moves the cursor off the end autoplay goes on
\* without play.
C29_AutoplayGated ==
    [][/\ lastOp' = "tick" =>
             (isPlaying /\ ~atEnd /\ eventIndex' = eventIndex + 1)
       /\ ((~isPlaying \/ atEnd) /\ eventIndex' # eventIndex) =>
             lastOp' \in {"next", "prev", "jumpTo", "jumpToEnd", "play", "rewind"}
       /\ (~isPlaying /\ isPlaying') => lastOp' = "play"]_vars

\* autoplay ran to the end, prev stepped back from the last position, and
\* the timer advanced the cursor again without a call of play
C29_Witness ==
    /\ lastOp = "tick" /\ trail = << "prev", "next" >>
    /\ pre = N - 2 /\ eventIndex = N - 1 /\ N > 2
    /\ isPlaying

\* C30: if isPlaying is true and only the autoplay timer acts, then under
\* fair firing of the timer the cursor eventually reaches N - 1 and stays
\* there; every tick advances it by exactly one position, so each position
\* in between is visited once, in increasing order, and no tick is delivered
\* at the last position.
C30_AutoplayReachesEnd ==
    /\ <>[](eventIndex = N - 1)
    /\ [][/\ eventIndex < N - 1
          /\ eventIndex' = eventIndex + 1
          /\ isPlaying /\ isPlaying']_vars

\* autoplay started at the first position of a log of at least five events
\* and has arrived at the last one
C30_Witness ==
    /\ lastOp = "tick" /\ trail = << "next", "next" >>
    /\ N >= 5 /\ pre = N - 2 /\ eventIndex = N - 1
    /\ atEnd /\ isPlaying

\* C31: useAutoPlay keeps at most one interval alive, and one is alive
\* exactly when the component is mounted with active true, running at the
\* current intervalMs; a change of intervalMs while active replaces the
\* interval by a single new one; a timer callback runs only while mounted
\* and active, and it calls the onTick of the most recent render.
C31_OneTimerWhileActive ==
    /\ [](/\ Cardinality(hook.timers) <= 1
          /\ hook.timers # {} <=> (hook.mounted /\ hook.active)
          /\ \A t \in hook.timers : t.ms = hook.intervalMs)
    /\ [][/\ hook'.called # hook.called =>
                /\ hook.mounted /\ hook.active
                /\ hook'.called[1].onTick = hook.renders
                /\ hook'.called[1].ms = hook.intervalMs
          /\ ( /\ hook.mounted /\ hook'.mounted
               /\ hook.active /\ hook'.active
               /\ hook'.intervalMs # hook.intervalMs ) =>
                /\ Cardinality(hook'.timers) = 1
                /\ hook'.timers \cap hook.timers = {}]_vars

\* the interval was replaced when intervalMs changed, a later render
\* supplied a new onTick without touching the interval, and the timer then
\* called that newest onTick
C31_Witness ==
    /\ hook.mounted /\ hook.active
    /\ hook.renders = 3 /\ hook.made = 2
    /\ hook.timers = { [id |-> 2, ms |-> hook.intervalMs] }
    /\ hook.called = Some([onTick |-> 3, timer |-> 2, ms |-> hook.intervalMs])

\* C32: each operation acts on the current cursor state also when two are
\* called in one handler: play called right after an operation that moved
\* the cursor to N - 1 resets the position to 0, and play called right after
\* an operation that moved the cursor away from N - 1 does not reset it.
C32_PlaySeesCurrentPosition ==
    [][LET moved == IF lastOp' = "jumpToEnd+play" THEN jumpToEnd(N)
                    ELSE IF lastOp' = "jumpTo+play" THEN jumpTo(lastArg', N)
                    ELSE prev(eventIndex)
       IN  lastOp' \in {"jumpToEnd+play", "jumpTo+play", "prev+play"} =>
              /\ isPlaying'
              /\ moved = N - 1 => eventIndex' = 0
              /\ moved # N - 1 => eventIndex' = moved]_vars

\* C33: the cursor position is never negative after any sequence of
\* operations, also for a session log with zero rounds (N = 0), where next,
\* jumpTo and jumpToEnd leave the position at 0.
C33_NeverNegative ==
    eventIndex >= 0

\* C34: a newly created replay is at position 0, on the round_start of the
\* first round, with isPlaying true and speed 800; the autoplay driver is
\* active in that state, and its first tick, with no play call before it,
\* takes the cursor to position 1.
C34_StartsPlaying ==
    /\ [](lastOp = "init" =>
            /\ eventIndex = 0 /\ isPlaying /\ speed = 800
            /\ currentEvent = [kind |-> "round_start", roundIndex |-> 0]
            /\ isPlaying /\ ~atEnd)
    /\ [][(lastOp = "init" /\ lastOp' = "tick") =>
             (eventIndex' = 1 /\ isPlaying' /\ speed' = 800)]_vars

\* the first thing that happened to a new replay was an autoplay tick
C34_Witness ==
    /\ lastOp = "tick" /\ pre = 0 /\ eventIndex = 1
    /\ trail = << "next" >>
    /\ isPlaying /\ speed = 800 /\ frame = NULL

\* C35: within one round of a log without splits, the number of cards shown
\* for any agent never decreases as the cursor advances one event at a time
\* from the round's round_start to its round_end.
C35_CardsNeverDecrease ==
    [][( /\ eventIndex' = eventIndex + 1
         /\ currentEvent'.roundIndex = currentEvent.roundIndex
         /\ \A b \in 1..Len(round.agent_results) :
               Len(round.agent_results[b].player_hands) = 1 ) =>
          \A b \in 1..Len(round.agent_results) :
              Len(agentHands'[b]) >= Len(agentHands[b])]_vars

C37_DealerHidden ==
    /\ currentEvent.kind \in {"round_start", "agent_step"} =>
          /\ ~dealerRevealed
          /\ dealerPanel.displayCards = << round.dealer_upcard >>
          /\ dealerPanel.faceDown
          /\ dealerPanel.val = NULL /\ ~dealerPanel.bust /\ ~dealerPanel.bj
          /\ \A i \in 2..Len(round.dealer_hand) :
                \A j \in 1..Len(dealerPanel.displayCards) :
                    dealerPanel.displayCards[j] # round.dealer_hand[i]
    /\ currentEvent.kind \in {"dealer_reveal", "round_end"} =>
          /\ dealerRevealed
          /\ dealerPanel.displayCards = round.dealer_hand
          /\ ~dealerPanel.faceDown
          /\ dealerPanel.val = Some(DealerPanel_handValue(round.dealer_hand))

\* the cursor is on an agent step of the second round, whose dealer holds
\* three cards: one card and the placeholder are laid out
C37_Witness ==
    /\ currentEvent.kind = "agent_step" /\ currentEvent.roundIndex = 1
    /\ round.dealer_hand = << "6D", "5C", "10H" >>
    /\ dealerPanel.displayCards = << "6D" >>
    /\ dealerPanel.faceDown /\ dealerPanel.val = NULL

\* C40: for every hand of ranks A, 2-10, J, Q, K, handValue is the largest
\* total not above 21 that counting each ace as 1 or 11 and each face card
\* as 10 can give, and the total with every ace as 1 when there is none; the
\* hand is flagged blackjack exactly when it has two cards and value 21, and
\* bust exactly when its value is above 21 (both panels).
C40_HandValue ==
    /\ handValue(handText) = bestTotal(cards)
    /\ DealerPanel_handValue(handText) = bestTotal(cards)
    /\ AgentPanel(handText).bj <=> (Len(cards) = 2 /\ bestTotal(cards) = 21)
    /\ AgentPanel(handText).bust <=> bestTotal(cards) > 21
    /\ Len(cards) > 0 =>
          /\ DealerPanel(handText[1], handText, TRUE).bj <=>
                (Len(cards) = 2 /\ bestTotal(cards) = 21)
          /\ DealerPanel(handText[1], handText, TRUE).bust <=>
                bestTotal(cards) > 21

\* a hand of two aces and a ten: both aces are counted as 1
C40_Witness ==
    /\ handText = << "AS", "AH", "10S" >>
    /\ handValue(handText) = 12
    /\ ~AgentPanel(handText).bust /\ ~AgentPanel(handText).bj

\* C38: under the actions the views dispatch, the view is never 'game' or
\* 'leaderboard' while session is null, and GO_TO_MENU always leaves the
\* view 'menu', session null and error null with the config unchanged.
C38_SessionBehindViews ==
    /\ [](app.state.view \in {"game", "leaderboard"} => app.state.session # NULL)
    /\ [][( /\ app' # app
            /\ app'.dispatched = << [type |-> "GO_TO_MENU"] >> ) =>
              /\ app'.state.view = "menu"
              /\ app'.state.session = NULL
              /\ app'.state.error = NULL
              /\ app'.state.config = app.state.config]_vars

\* back in the menu from a loaded session, with a config that was edited
C38_Witness ==
    /\ app.handler = "GO_TO_MENU" /\ app.settled # NULL /\ app.settled[1].ok
    /\ app.state.view = "menu" /\ app.state.session = NULL
    /\ app.state.config = [agents |-> << "DNN" >>, num_rounds |-> 500]

\* C39: handleStart with at least one agent selected dispatches
\* START_LOADING: the view becomes 'loading' and error null; the only step
\* out of 'loading' is the settling of the run, which leaves either view
\* 'game' with the returned session and error null, or view 'menu' with the
\* failure message in error and the session unchanged.  With no agent
\* selected handleStart dispatches nothing and the app state is unchanged.
C39_RunOutcome ==
    /\ [](app.pending <=> app.state.view = "loading")
    /\ [][/\ ( /\ app' # app /\ app'.handler = "handleStart"
               /\ Len(app.state.config.agents) > 0 ) =>
                 /\ app'.dispatched = << [type |-> "START_LOADING"] >>
                 /\ app'.state = [app.state EXCEPT !.view = "loading", !.error = NULL]
                 /\ app'.pending
          /\ ( /\ app'.handler = "handleStart"
               /\ Len(app.state.config.agents) = 0 ) =>
                 /\ app'.dispatched = << >>
                 /\ app'.state = app.state
                 /\ ~app'.pending
          /\ (app' # app /\ app.state.view = "loading") =>
                 /\ ~app'.pending
                 /\ app'.settled # NULL
                 /\ app'.state.config = app.state.config
                 /\ IF app'.settled[1].ok
                    THEN /\ app'.state.view = "game"
                         /\ app'.state.session = Some(app'.settled[1].value)
                         /\ app'.state.error = NULL
                    ELSE /\ app'.state.view = "menu"
                         /\ app'.state.error =
                               Some(IF app'.settled[1].message = NULL
                                    THEN "Unknown error"
                                    ELSE app'.settled[1].message[1])
                         /\ app'.state.session = app.state.session]_vars

\* a run that failed without a message: back in the menu with the default
\* text in error
C39_Witness ==
    /\ app.handler = "handleStart.catch"
    /\ app.state.view = "menu" /\ ~app.pending
    /\ app.state.error = Some("Unknown error")
    /\ app.state.session = NULL
====
